---- MODULE Spec2Model ----
(***************************************************************************)
(* Model of core/src/swarm.rs: the Swarm, its drive loop (Stream::poll),   *)
(* the NetworkBehaviour contract and the PollParameters view.              *)
(*                                                                         *)
(* The RawSwarm (connection manager), the Transport and the Topology are   *)
(* collaborators whose code lives outside swarm.rs; they are modelled from *)
(* the interface the Swarm consumes.  The NetworkBehaviour is supplied by  *)
(* the embedder: its poll results and its handlers are inputs.             *)
(***************************************************************************)
EXTENDS Naturals, Sequences, FiniteSets

\* ------------------------------------------------------------------ bounds

\* Operations that grow the recorded history in one behaviour: lifecycle events
\* yielded by the connection manager, successful listen_on calls and
\* new_handler calls after construction.
MaxWork == 3

\* ------------------------------------------------------------------ values

PeerIds == {"P", "Q"}
\* "A" and "B" are supported by the transport, "X" is not.
Multiaddrs == {"A", "B", "X"}
TransportSupported == {"A", "B"}
\* The addresses the behaviour and the embedder dial or report.
DialAddrs == {"A", "X"}
Endpoints == {"Dialer", "Listener"}
\* ProtocolsHandler::OutEvent, ProtocolsHandler::InEvent, NetworkBehaviour::OutEvent
HandlerOutEvents == {"node_ev"}
HandlerInEvents == {"in_ev"}
OutEvents == {"out1", "out2"}

NotReady == <<"NotReady">>
None == <<"none">>

\* ------------------------------------------------------------------ state

VARIABLES
    raw_swarm,            \* Swarm::raw_swarm: [peers, listeners]
    behaviour,            \* Swarm::behaviour: [handlers]: new_handler calls so far
    topology,             \* Swarm::topology: [addresses, external]
    supported_protocols,  \* Swarm::supported_protocols
    listened_addrs,       \* Swarm::listened_addrs
    pc,                   \* position of the caller in Stream::poll
    raw_swarm_not_ready,  \* the local of Stream::poll
    ops,                  \* the calls made by the last step, in order
    raw_event,            \* what raw_swarm.poll() returned in this sub-cycle
    action,               \* what behaviour.poll() returned in this sub-cycle
    parameters,           \* the PollParameters of behaviour.poll() in this sub-cycle
    returned,             \* what the last call of the embedder returned
    events,               \* every lifecycle event the manager yielded, in order
    callbacks,            \* every inject_* call made on the behaviour, in order
    listen_oks,           \* the addresses listen_on returned with Ok, in order
    pull_dials            \* transport dials started by the poll that is running

vars == <<raw_swarm, behaviour, topology, supported_protocols, listened_addrs,
          pc, raw_swarm_not_ready, ops, raw_event, action, parameters,
          returned, events, callbacks, listen_oks, pull_dials>>

\* ------------------------------------------------------------------ helpers

RECURSIVE Count(_, _)
\* Number of elements of the sequence s that are in the set S.
Count(s, S) ==
    IF s = <<>> THEN 0
    ELSE (IF Head(s) \in S THEN 1 ELSE 0) + Count(Tail(s), S)

RECURSIVE SelectOps(_, _)
\* The subsequence of s of the calls whose name is in names.
SelectOps(s, names) ==
    IF s = <<>> THEN <<>>
    ELSE (IF Head(s)[1] \in names THEN <<Head(s)>> ELSE <<>>)
         \o SelectOps(Tail(s), names)

InjectNames == {"inject_connected", "inject_disconnected", "inject_node_event"}

\* ------------------------------------------------------------------ behaviour

\* The protocols of the n-th handler the behaviour builds: the behaviour's
\* protocol set changes after construction.
HandlerProtocols(n) ==
    IF n <= 1 THEN <<"/proto/1">> ELSE <<"/proto/1", "/proto/2">>

\* NetworkBehaviour::new_handler: one more handler built.
NewHandler(b) == [b EXCEPT !.handlers = @ + 1]

\* What NetworkBehaviour::poll may return.
BehaviourActions ==
    {NotReady}
    \cup {<<"GenerateEvent", e>> : e \in OutEvents}
    \cup {<<"DialAddress", a>> : a \in DialAddrs}
    \cup {<<"DialPeer", p>> : p \in PeerIds}
    \cup {<<"SendEvent", p, e>> : p \in PeerIds, e \in HandlerInEvents}
    \cup {<<"ReportObservedAddr", a>> : a \in DialAddrs}

\* ------------------------------------------------------------------ topology

\* Topology::addresses_of_peer.
AddressesOfPeer(t, p) == t.addresses[p]

\* What the behaviour may do to the topology through PollParameters::topology
\* while it is polled: nothing, or record one more address of a peer.
TopologyWrites == {None, <<"add_address", "P", "B">>}

\* The topology after the behaviour's write w.
BehaviourWrite(t, w) ==
    IF w = None \/ (\E i \in 1..Len(t.addresses[w[2]]) : t.addresses[w[2]][i] = w[3])
    THEN t
    ELSE [t EXCEPT !.addresses[w[2]] = Append(@, w[3])]

\* Topology::add_local_external_addrs.
AddLocalExternalAddrs(t, addrs) == [t EXCEPT !.external = @ \cup addrs]

\* ------------------------------------------------------------------ raw swarm

\* The address a listener is bound to: the transport may rewrite it.
BoundAddr(a) == IF a = "A" THEN "A0" ELSE a

\* RawSwarm::listen_on: [rs, result].
RawListenOn(rs, addr) ==
    IF addr \in TransportSupported
    THEN [rs |-> [rs EXCEPT !.listeners = Append(@, BoundAddr(addr))],
          result |-> <<"Ok", BoundAddr(addr)>>]
    ELSE [rs |-> rs, result |-> <<"Err", addr>>]

\* RawSwarm::dial: [rs, result, ops].
RawDial(rs, addr) ==
    IF addr \in TransportSupported
    THEN [rs |-> rs, result |-> <<"Ok">>,
          ops |-> << <<"raw_swarm.dial", addr>>, <<"transport.dial", addr>> >>]
    ELSE [rs |-> rs, result |-> <<"Err", addr>>,
          ops |-> << <<"raw_swarm.dial", addr>> >>]

\* RawSwarm::peer: the state of the peer.
PeerState(rs, p) ==
    IF rs.peers[p] \in Endpoints THEN "Connected" ELSE rs.peers[p]

RECURSIVE TriedAddrs(_)
\* The addresses connect_iter tries: each one in order up to the first the
\* transport starts dialing.
TriedAddrs(addrs) ==
    IF addrs = <<>> THEN <<>>
    ELSE IF Head(addrs) \in TransportSupported THEN <<Head(addrs)>>
    ELSE <<Head(addrs)>> \o TriedAddrs(Tail(addrs))

\* PeerNotConnected::connect_iter: [rs, ops].
ConnectIter(rs, p, addrs) ==
    LET tried == TriedAddrs(addrs)
        started == tried # <<>> /\ tried[Len(tried)] \in TransportSupported
    IN [rs |-> IF started THEN [rs EXCEPT !.peers[p] = "PendingConnect"] ELSE rs,
        ops |-> << <<"connect_iter", p, addrs>> >>
                \o [i \in 1..Len(tried) |-> <<"transport.dial", tried[i]>>]]

\* PeerConnected::send_event.
SendEventOps(p, e) == << <<"send_event", p, e>> >>

OtherEndpoint(ep) == IF ep = "Dialer" THEN "Listener" ELSE "Dialer"

\* The lifecycle events RawSwarm::poll may yield for the peer p in the state rs:
\* a remote connects through a listener, a pending dial succeeds or fails, an
\* open connection produces an event, closes, fails or is replaced by a new one.
PeerEvents(rs, p) ==
    CASE PeerState(rs, p) = "NotConnected" ->
            IF rs.listeners = <<>> THEN {} ELSE {<<"Connected", p, "Listener">>}
      [] PeerState(rs, p) = "PendingConnect" ->
            {<<"Connected", p, "Dialer">>, <<"DialError", p>>}
      [] OTHER ->
            {<<"NodeEvent", p, e>> : e \in HandlerOutEvents}
            \cup {<<"NodeClosed", p, rs.peers[p]>>, <<"NodeError", p, rs.peers[p]>>,
                  <<"Replaced", p, rs.peers[p], OtherEndpoint(rs.peers[p])>>}

\* What RawSwarm::poll may return in the state rs.
RawSwarmPollResults(rs) ==
    {NotReady, <<"UnknownPeerDialError">>}
    \cup UNION {PeerEvents(rs, p) : p \in PeerIds}
    \cup (IF rs.listeners = <<>> THEN {}
          ELSE {<<"IncomingConnection">>, <<"IncomingConnectionError">>}
               \cup {<<"ListenerClosed", rs.listeners[i]>> : i \in 1..Len(rs.listeners)})

RemoveAt(s, i) == SubSeq(s, 1, i - 1) \o SubSeq(s, i + 1, Len(s))

\* The least index of the listener bound to addr.
ListenerIndex(rs, addr) ==
    CHOOSE i \in 1..Len(rs.listeners) :
        /\ rs.listeners[i] = addr
        /\ \A j \in 1..(i - 1) : rs.listeners[j] # addr

\* The connection manager after its poll returned ev.
RawSwarmAfterPoll(rs, ev) ==
    CASE ev[1] = "Connected" -> [rs EXCEPT !.peers[ev[2]] = ev[3]]
      [] ev[1] \in {"NodeClosed", "NodeError", "DialError"} ->
            [rs EXCEPT !.peers[ev[2]] = "NotConnected"]
      [] ev[1] = "Replaced" -> [rs EXCEPT !.peers[ev[2]] = ev[4]]
      [] ev[1] = "ListenerClosed" ->
            [rs EXCEPT !.listeners = RemoveAt(@, ListenerIndex(rs, ev[2]))]
      [] OTHER -> rs

\* IncomingConnectionEvent::accept: the connection is taken with its handler.
RawAccept(rs) == rs

\* Transport::nat_traversal: whether the transport translates the observed
\* address for the listener bound to server: only an address it supports.
NatTranslates(server, observed) == observed \in TransportSupported

\* Transport::nat_traversal: the address by which the listener bound to server
\* is reached from outside, given that a remote observed us at observed.
NatTranslate(server, observed) ==
    IF server = "A0" THEN "A@A0" ELSE "A@B"

\* RawSwarm::nat_traversal: the translations of the observed address by the
\* listeners.
RawNatTraversal(rs, observed) ==
    {NatTranslate(rs.listeners[i], observed) :
        i \in {j \in 1..Len(rs.listeners) : NatTranslates(rs.listeners[j], observed)}}

\* RawSwarm::listeners.
RawListeners(rs) == rs.listeners

\* ------------------------------------------------------------------ Swarm

\* Swarm::new: the protocols of the first handler the behaviour builds.
NewSupportedProtocols == HandlerProtocols(1)

\* listen_on recording the address it was given instead of the one returned.
listen_on_PushesArgument(rs, listened, addr) ==
    LET r == RawListenOn(rs, addr)
    IN [raw_swarm |-> r.rs,
        listened_addrs |-> IF r.result[1] = "Ok"
                           THEN Append(listened, addr) ELSE listened,
        result |-> r.result]

\* listen_on pushing whatever address the manager returned, error included.
listen_on_PushesRejected(rs, listened, addr) ==
    LET r == RawListenOn(rs, addr)
    IN [raw_swarm |-> r.rs,
        listened_addrs |-> Append(listened, r.result[2]),
        result |-> r.result]

\* Swarm::listen_on: [raw_swarm, listened_addrs, result].
listen_on(rs, listened, addr) ==
    LET r == RawListenOn(rs, addr)
    IN [raw_swarm |-> r.rs,
        listened_addrs |-> IF r.result[1] = "Ok"
                           THEN Append(listened, r.result[2]) ELSE listened,
        result |-> r.result]

\* Swarm::dial_addr: [behaviour, raw_swarm, result, ops].
dial_addr(b, rs, addr) ==
    LET d == RawDial(rs, addr)
    IN [behaviour |-> NewHandler(b),
        raw_swarm |-> d.rs,
        result |-> d.result,
        ops |-> << <<"new_handler">> >> \o d.ops]

\* dial without any test of the state of the peer.
dial_Unconditional(b, rs, t, peer_id) ==
    LET addrs == AddressesOfPeer(t, peer_id)
        c == ConnectIter(rs, peer_id, addrs)
    IN [behaviour |-> NewHandler(b), raw_swarm |-> c.rs,
        ops |-> << <<"addresses_of_peer", peer_id>>, <<"new_handler">> >> \o c.ops]

\* dial testing as_connected instead of as_not_connected: it connects unless
\* the peer is connected.
dial_AlsoWhenPending(b, rs, t, peer_id) ==
    LET addrs == AddressesOfPeer(t, peer_id)
        c == ConnectIter(rs, peer_id, addrs)
        first == << <<"addresses_of_peer", peer_id>>, <<"new_handler">> >>
    IN IF PeerState(rs, peer_id) # "Connected"
       THEN [behaviour |-> NewHandler(b), raw_swarm |-> c.rs, ops |-> first \o c.ops]
       ELSE [behaviour |-> NewHandler(b), raw_swarm |-> rs, ops |-> first]

\* Swarm::dial: [behaviour, raw_swarm, ops].
dial(b, rs, t, peer_id) ==
    LET addrs == AddressesOfPeer(t, peer_id)
        c == ConnectIter(rs, peer_id, addrs)
        first == << <<"addresses_of_peer", peer_id>>, <<"new_handler">> >>
    IN IF PeerState(rs, peer_id) = "NotConnected"
       THEN [behaviour |-> NewHandler(b), raw_swarm |-> c.rs, ops |-> first \o c.ops]
       ELSE [behaviour |-> NewHandler(b), raw_swarm |-> rs, ops |-> first]

\* Swarm::listeners.
listeners == RawListeners(raw_swarm)

\* InjectCalls with the NodeError arm left empty like the other error arms.
InjectCalls_NodeErrorAbsorbed(ev) ==
    CASE ev[1] = "NodeEvent" -> << <<"inject_node_event", ev[2], ev[3]>> >>
      [] ev[1] = "Connected" -> << <<"inject_connected", ev[2], ev[3]>> >>
      [] ev[1] = "NodeClosed" -> << <<"inject_disconnected", ev[2], ev[3]>> >>
      [] ev[1] = "Replaced" -> << <<"inject_disconnected", ev[2], ev[3]>>,
                                  <<"inject_connected", ev[2], ev[4]>> >>
      [] OTHER -> <<>>

\* InjectCalls with the two calls of the Replaced arm in the other order.
InjectCalls_ReplacedSwapped(ev) ==
    CASE ev[1] = "NodeEvent" -> << <<"inject_node_event", ev[2], ev[3]>> >>
      [] ev[1] = "Connected" -> << <<"inject_connected", ev[2], ev[3]>> >>
      [] ev[1] \in {"NodeClosed", "NodeError"} ->
            << <<"inject_disconnected", ev[2], ev[3]>> >>
      [] ev[1] = "Replaced" -> << <<"inject_connected", ev[2], ev[4]>>,
                                  <<"inject_disconnected", ev[2], ev[3]>> >>
      [] OTHER -> <<>>

\* InjectCalls with the Replaced arm reporting only the new connection.
InjectCalls_ReplacedOnlyConnected(ev) ==
    CASE ev[1] = "NodeEvent" -> << <<"inject_node_event", ev[2], ev[3]>> >>
      [] ev[1] = "Connected" -> << <<"inject_connected", ev[2], ev[3]>> >>
      [] ev[1] \in {"NodeClosed", "NodeError"} ->
            << <<"inject_disconnected", ev[2], ev[3]>> >>
      [] ev[1] = "Replaced" -> << <<"inject_connected", ev[2], ev[4]>> >>
      [] OTHER -> <<>>

\* Stream::poll, lines 265-289: the inject_* calls made for what
\* raw_swarm.poll() returned.
InjectCalls(ev) ==
    CASE ev[1] = "NodeEvent" -> << <<"inject_node_event", ev[2], ev[3]>> >>
      [] ev[1] = "Connected" -> << <<"inject_connected", ev[2], ev[3]>> >>
      [] ev[1] \in {"NodeClosed", "NodeError"} ->
            << <<"inject_disconnected", ev[2], ev[3]>> >>
      [] ev[1] = "Replaced" -> << <<"inject_disconnected", ev[2], ev[3]>>,
                                  <<"inject_connected", ev[2], ev[4]>> >>
      [] OTHER -> <<>>

\* Dispatch with raw_swarm_not_ready declared outside the loop: once set it
\* stays set.
Dispatch_StickyNotReady(b, rs, ev) ==
    [behaviour |-> IF ev[1] = "IncomingConnection" THEN NewHandler(b) ELSE b,
     raw_swarm |-> IF ev[1] = "IncomingConnection" THEN RawAccept(rs) ELSE rs,
     raw_swarm_not_ready |-> (raw_swarm_not_ready \/ ev = NotReady),
     ops |-> << <<"raw_swarm.poll">> >> \o InjectCalls(ev)
             \o (IF ev[1] = "IncomingConnection"
                 THEN << <<"new_handler">>, <<"accept">> >> ELSE <<>>)]

\* Dispatch with the IncomingConnection arm left empty like the error arms:
\* the connection is neither accepted nor given a handler.
Dispatch_IncomingIgnored(b, rs, ev) ==
    [behaviour |-> b,
     raw_swarm |-> rs,
     raw_swarm_not_ready |-> (ev = NotReady),
     ops |-> << <<"raw_swarm.poll">> >> \o InjectCalls(ev)]

\* Stream::poll, lines 263-289: [behaviour, raw_swarm, raw_swarm_not_ready, ops]
\* after raw_swarm.poll() returned ev and left the manager in the state rs.
Dispatch(b, rs, ev) ==
    [behaviour |-> IF ev[1] = "IncomingConnection" THEN NewHandler(b) ELSE b,
     raw_swarm |-> IF ev[1] = "IncomingConnection" THEN RawAccept(rs) ELSE rs,
     raw_swarm_not_ready |-> (ev = NotReady),
     ops |-> << <<"raw_swarm.poll">> >> \o InjectCalls(ev)
             \o (IF ev[1] = "IncomingConnection"
                 THEN << <<"new_handler">>, <<"accept">> >> ELSE <<>>)]

\* PollParameters with the protocols read again from the latest handler.
PollParameters_Refreshed ==
    [polled |-> TRUE,
     supported_protocols |-> HandlerProtocols(behaviour.handlers),
     listened_addrs |-> listened_addrs]

\* OnListenerClosed taking the closed listener's address off the list.
OnListenerClosed_Removes(listened, addr) ==
    IF \E i \in 1..Len(listened) : listened[i] = addr
    THEN RemoveAt(listened, CHOOSE i \in 1..Len(listened) : listened[i] = addr)
    ELSE listened

\* Stream::poll, line 285: the ListenerClosed arm is empty: listened_addrs is
\* left as it is.
OnListenerClosed(listened, addr) == listened

\* AfterDispatch with `continue` in the arms that make no callback: the loop
\* polls the manager again without polling the behaviour.
AfterDispatch_ContinueWhenAbsorbed(ev) ==
    IF ev[1] \in {"ListenerClosed", "IncomingConnectionError", "DialError",
                  "UnknownPeerDialError"}
    THEN "raw_swarm_poll" ELSE "behaviour_poll"

\* Stream::poll, lines 265-291: every arm of the match on raw_swarm.poll()
\* falls through to the behaviour poll.
AfterDispatch(ev) == "behaviour_poll"

\* PollParameters giving the addresses the manager listens on now instead of the
\* list kept by the Swarm.
PollParameters_LiveListeners ==
    [polled |-> TRUE,
     supported_protocols |-> supported_protocols,
     listened_addrs |-> RawListeners(raw_swarm)]

\* Stream::poll, lines 291-300: what the behaviour reads through the
\* PollParameters.
PollParameters ==
    [polled |-> TRUE,
     supported_protocols |-> supported_protocols,
     listened_addrs |-> listened_addrs]

\* OnNotReady ending the stream when the manager has nothing either.
OnNotReady_EndOfStream(not_ready) == IF not_ready THEN <<"Ready", "None">> ELSE <<"loop">>

\* OnNotReady going round the loop whatever the manager said: the loop spins
\* until the behaviour generates an event.
OnNotReady_Spin(not_ready) == <<"loop">>

\* OnNotReady without the test of raw_swarm_not_ready: the pull returns pending
\* as soon as the behaviour is not ready.
OnNotReady_Eager(not_ready) == NotReady

\* Stream::poll, lines 303-304: what poll returns when the behaviour is not
\* ready; <<"loop">> when it goes round the loop again.
OnNotReady(not_ready) == IF not_ready THEN NotReady ELSE <<"loop">>

\* OnGenerateEvent keeping the event for later and going round the loop.
OnGenerateEvent_Loop(event) == <<"loop">>

\* Stream::poll, lines 305-307: what poll returns on GenerateEvent(event).
OnGenerateEvent(event) == <<"Ready", event>>

\* SendEvent testing as_not_connected instead of as_connected: it also sends
\* to a peer that is being dialed.
SendEvent_AlsoWhenPending(rs, peer_id, event) ==
    IF PeerState(rs, peer_id) # "NotConnected"
    THEN SendEventOps(peer_id, event) ELSE <<>>

\* Stream::poll, lines 314-318: the calls made for SendEvent { peer_id, event }.
SendEvent(rs, peer_id, event) ==
    IF PeerState(rs, peer_id) = "Connected" THEN SendEventOps(peer_id, event) ELSE <<>>

\* DialAddress with the result of dial_addr passed on with `?`: a rejected
\* address ends the pull with the error.
OnDialAddress_ErrorReturned(result) ==
    IF result[1] = "Err" THEN result ELSE <<"loop">>

\* Stream::poll, lines 308-310: `let _ = Swarm::dial_addr(..)`: whatever dial_addr
\* returned, the loop goes on.
OnDialAddress(result) == <<"loop">>

\* TopologyAfter with the DialAddress arm registering the dialed address as an
\* external address.
TopologyAfter_DialAddressRegisters(rs, t, act) ==
    IF act[1] = "ReportObservedAddr"
    THEN AddLocalExternalAddrs(t, RawNatTraversal(rs, act[2]))
    ELSE IF act[1] = "DialAddress" THEN AddLocalExternalAddrs(t, {act[2]})
    ELSE t

\* TopologyAfter with the ReportObservedAddr arm registering the observed
\* address itself instead of its translations.
TopologyAfter_RegistersObserved(rs, t, act) ==
    IF act[1] = "ReportObservedAddr"
    THEN AddLocalExternalAddrs(t, {act[2]})
    ELSE t

\* Stream::poll, lines 302-322: the topology after behaviour.poll() returned
\* act: only the ReportObservedAddr arm touches it (lines 319-321).
TopologyAfter(rs, t, act) ==
    IF act[1] = "ReportObservedAddr"
    THEN AddLocalExternalAddrs(t, RawNatTraversal(rs, act[2]))
    ELSE t

\* Stream::poll, lines 302-322: [behaviour, raw_swarm, topology, ops, ret] after
\* behaviour.poll() returned act; ret is what poll returns, or <<"loop">> when it
\* goes round the loop again.
Execute(b, rs, t, not_ready, act) ==
    LET same == [behaviour |-> b, raw_swarm |-> rs,
                 topology |-> TopologyAfter(rs, t, act),
                 ops |-> <<>>, ret |-> <<"loop">>]
    IN CASE act = NotReady -> [same EXCEPT !.ret = OnNotReady(not_ready)]
         [] act[1] = "GenerateEvent" -> [same EXCEPT !.ret = OnGenerateEvent(act[2])]
         [] act[1] = "DialAddress" ->
              LET d == dial_addr(b, rs, act[2])
              IN [same EXCEPT !.behaviour = d.behaviour, !.raw_swarm = d.raw_swarm,
                              !.ops = d.ops, !.ret = OnDialAddress(d.result)]
         [] act[1] = "DialPeer" ->
              LET d == dial(b, rs, t, act[2])
              IN [same EXCEPT !.behaviour = d.behaviour, !.raw_swarm = d.raw_swarm,
                              !.ops = d.ops]
         [] act[1] = "SendEvent" ->
              [same EXCEPT !.ops = SendEvent(rs, act[2], act[3])]
         [] act[1] = "ReportObservedAddr" ->
              LET addrs == RawNatTraversal(rs, act[2])
              IN [same EXCEPT !.ops = << <<"nat_traversal", act[2]>>,
                                         <<"add_local_external_addrs", addrs>> >>]

\* Whether executing act asks the behaviour for a handler.
BuildsHandler(act) == act[1] \in {"DialAddress", "DialPeer"}

TransportDials == {<<"transport.dial", a>> : a \in Multiaddrs}

\* ------------------------------------------------------------------ actions

\* No behaviour poll in this sub-cycle yet.
NoParameters ==
    [polled |-> FALSE, supported_protocols |-> <<>>, listened_addrs |-> <<>>]

\* The history recorded so far, counted against MaxWork.
Work == Len(events) + Len(listen_oks) + (behaviour.handlers - 1)

Init ==
    /\ raw_swarm = [peers |-> [p \in PeerIds |-> "NotConnected"], listeners |-> <<>>]
    /\ behaviour = [handlers |-> 1]
    /\ topology = [addresses |-> [p \in PeerIds |->
                                    IF p = "P" THEN <<"A">> ELSE <<"X", "A">>],
                   external |-> {}]
    /\ supported_protocols = NewSupportedProtocols
    /\ listened_addrs = <<>>
    /\ pc = "idle"
    /\ raw_swarm_not_ready = FALSE
    /\ ops = <<>>
    /\ raw_event = None
    /\ action = None
    /\ parameters = NoParameters
    /\ returned = None
    /\ events = <<>>
    /\ callbacks = <<>>
    /\ listen_oks = <<>>
    /\ pull_dials = 0

\* The embedder calls Swarm::listen_on(addr).
ListenOn(addr) ==
    /\ pc = "idle"
    /\ LET r == listen_on(raw_swarm, listened_addrs, addr)
       IN /\ r.result[1] = "Ok" => Work < MaxWork
          /\ raw_swarm' = r.raw_swarm
          /\ listened_addrs' = r.listened_addrs
          /\ returned' = <<"listen_on", addr>> \o r.result
          /\ listen_oks' = IF r.result[1] = "Ok"
                           THEN Append(listen_oks, r.result[2]) ELSE listen_oks
    /\ ops' = << <<"raw_swarm.listen_on", addr>> >>
    /\ raw_event' = None
    /\ action' = None
    /\ parameters' = NoParameters
    /\ UNCHANGED <<behaviour, topology, supported_protocols, pc,
                   raw_swarm_not_ready, events, callbacks, pull_dials>>

\* The embedder calls Swarm::dial_addr(addr).
DialAddr(addr) ==
    /\ pc = "idle"
    /\ Work < MaxWork
    /\ LET d == dial_addr(behaviour, raw_swarm, addr)
       IN /\ behaviour' = d.behaviour
          /\ raw_swarm' = d.raw_swarm
          /\ returned' = <<"dial_addr", addr>> \o d.result
          /\ ops' = d.ops
    /\ raw_event' = None
    /\ action' = None
    /\ parameters' = NoParameters
    /\ UNCHANGED <<topology, supported_protocols, listened_addrs, pc,
                   raw_swarm_not_ready, events, callbacks, listen_oks, pull_dials>>

\* The embedder calls Swarm::dial(peer_id).
Dial(peer_id) ==
    /\ pc = "idle"
    /\ Work < MaxWork
    /\ LET d == dial(behaviour, raw_swarm, topology, peer_id)
       IN /\ behaviour' = d.behaviour
          /\ raw_swarm' = d.raw_swarm
          /\ ops' = d.ops
    /\ returned' = <<"dial", peer_id>>
    /\ raw_event' = None
    /\ action' = None
    /\ parameters' = NoParameters
    /\ UNCHANGED <<topology, supported_protocols, listened_addrs, pc,
                   raw_swarm_not_ready, events, callbacks, listen_oks, pull_dials>>

\* The embedder calls Stream::poll: the loop is entered.
Poll ==
    /\ pc = "idle"
    /\ pc' = "raw_swarm_poll"
    /\ ops' = <<>>
    /\ returned' = <<"poll">>
    /\ raw_event' = None
    /\ action' = None
    /\ parameters' = NoParameters
    /\ pull_dials' = 0
    /\ UNCHANGED <<raw_swarm, behaviour, topology, supported_protocols,
                   listened_addrs, raw_swarm_not_ready, events, callbacks,
                   listen_oks>>

\* The work of dispatching ev: the event itself and the handler of an
\* incoming connection.
EventWork(ev) ==
    IF ev = NotReady THEN 0 ELSE IF ev[1] = "IncomingConnection" THEN 2 ELSE 1

\* Stream::poll, lines 263-289: raw_swarm.poll() returns ev, which is dispatched.
PollRawSwarm(ev) ==
    /\ pc = "raw_swarm_poll"
    /\ ev \in RawSwarmPollResults(raw_swarm)
    /\ Work + EventWork(ev) <= MaxWork
    /\ LET d == Dispatch(behaviour, RawSwarmAfterPoll(raw_swarm, ev), ev)
       IN /\ behaviour' = d.behaviour
          /\ raw_swarm' = d.raw_swarm
          /\ raw_swarm_not_ready' = d.raw_swarm_not_ready
          /\ ops' = d.ops
          /\ callbacks' = callbacks \o SelectOps(d.ops, InjectNames)
    /\ raw_event' = ev
    /\ action' = None
    /\ parameters' = NoParameters
    /\ events' = IF ev = NotReady THEN events ELSE Append(events, ev)
    /\ pc' = AfterDispatch(ev)
    /\ listened_addrs' = IF ev[1] = "ListenerClosed"
                         THEN OnListenerClosed(listened_addrs, ev[2])
                         ELSE listened_addrs
    /\ UNCHANGED <<topology, supported_protocols, returned, listen_oks, pull_dials>>

\* Stream::poll, lines 291-322: behaviour.poll(), during which the behaviour
\* makes the write w to the topology, returns act, which is executed.
PollBehaviour(act, w) ==
    /\ pc = "behaviour_poll"
    /\ BuildsHandler(act) => Work < MaxWork
    /\ parameters' = PollParameters
    /\ action' = act
    /\ LET x == Execute(behaviour, raw_swarm, BehaviourWrite(topology, w),
                        raw_swarm_not_ready, act)
       IN /\ behaviour' = x.behaviour
          /\ raw_swarm' = x.raw_swarm
          /\ topology' = x.topology
          /\ ops' = << <<"behaviour.poll">> >> \o x.ops
                    \o (IF x.ret = <<"loop">> THEN <<>> ELSE << <<"return">> \o x.ret >>)
          /\ pull_dials' = IF x.ret = <<"loop">>
                            THEN pull_dials + Count(x.ops, TransportDials) ELSE 0
          /\ pc' = IF x.ret = <<"loop">> THEN "raw_swarm_poll" ELSE "idle"
          /\ returned' = IF x.ret = <<"loop">> THEN returned ELSE <<"poll">> \o x.ret
    /\ UNCHANGED <<supported_protocols, listened_addrs, raw_swarm_not_ready,
                   raw_event, events, callbacks, listen_oks>>

AllRawEvents ==
    {NotReady, <<"IncomingConnection">>, <<"IncomingConnectionError">>,
     <<"UnknownPeerDialError">>}
    \cup {<<"NodeEvent", p, e>> : p \in PeerIds, e \in HandlerOutEvents}
    \cup {<<k, p, ep>> : k \in {"Connected", "NodeClosed", "NodeError"},
                         p \in PeerIds, ep \in Endpoints}
    \cup {<<"Replaced", p, c, ep>> : p \in PeerIds, c \in Endpoints, ep \in Endpoints}
    \cup {<<"ListenerClosed", BoundAddr(a)>> : a \in TransportSupported}
    \cup {<<"DialError", p>> : p \in PeerIds}

Next ==
    \/ \E addr \in Multiaddrs : ListenOn(addr)
    \/ \E addr \in DialAddrs : DialAddr(addr)
    \/ \E peer_id \in PeerIds : Dial(peer_id)
    \/ Poll
    \/ \E ev \in AllRawEvents : PollRawSwarm(ev)
    \/ \E act \in BehaviourActions, w \in TopologyWrites : PollBehaviour(act, w)

Spec == Init /\ [][Next]_vars

\* ------------------------------------------------------------------ claims

RECURSIVE FlatMap(_, _)
FlatMap(F(_), s) == IF s = <<>> THEN <<>> ELSE F(Head(s)) \o FlatMap(F, Tail(s))

\* The callbacks the contract gives for one lifecycle event.
EventCallbacks(ev) ==
    IF ev[1] = "NodeEvent" THEN << <<"inject_node_event", ev[2], ev[3]>> >>
    ELSE IF ev[1] = "Connected" THEN << <<"inject_connected", ev[2], ev[3]>> >>
    ELSE IF ev[1] = "NodeClosed" \/ ev[1] = "NodeError"
         THEN << <<"inject_disconnected", ev[2], ev[3]>> >>
    ELSE IF ev[1] = "Replaced"
         THEN << <<"inject_disconnected", ev[2], ev[3]>>,
                 <<"inject_connected", ev[2], ev[4]>> >>
    ELSE <<>>

\* C1: the callbacks delivered to the behaviour so far are exactly the
\* concatenation, in the order of the events, of the per-event mapping of every
\* lifecycle event the connection manager yielded so far, whatever the
\* behaviour returned in between.
C1_CallbacksFollowEvents == callbacks = FlatMap(EventCallbacks, events)

\* C1 witness: a Connected and a Replaced have been dispatched, with a
\* behaviour action executed in between, and gave three callbacks.
C1_Witness ==
    /\ Len(events) = 2
    /\ events[1][1] = "Connected" /\ events[2][1] = "Replaced"
    /\ Len(callbacks) = 3
    /\ behaviour.handlers = 2

\* C2: in the sub-cycle in which the manager yields Replaced for a peer, the
\* calls made after the manager poll are exactly inject_disconnected(peer,
\* closed_endpoint) then inject_connected(peer, endpoint), nothing between or
\* after them, and the behaviour poll comes next.
C2_ReplacedPairAdjacent ==
    (raw_event[1] = "Replaced" /\ pc = "behaviour_poll") =>
        ops = << <<"raw_swarm.poll">>,
                 <<"inject_disconnected", raw_event[2], raw_event[3]>>,
                 <<"inject_connected", raw_event[2], raw_event[4]>> >>

\* C2 witness: a Replaced for Q, whose old and new endpoints differ, has just
\* been dispatched.
C2_Witness ==
    /\ raw_event[1] = "Replaced" /\ raw_event[2] = "Q"
    /\ raw_event[3] # raw_event[4]
    /\ pc = "behaviour_poll"
    /\ Len(ops) = 3

\* C3: right after a behaviour poll, the pull has returned NotReady exactly
\* when the manager poll of this sub-cycle and the behaviour poll both returned
\* not ready; when only the behaviour was not ready the pull has not returned
\* and the next step is a manager poll.
C3_PendingIffBothNotReady ==
    action # None =>
        /\ (pc = "idle" /\ returned = <<"poll", "NotReady">>)
               <=> (raw_event = NotReady /\ action = NotReady)
        /\ (action = NotReady /\ raw_event # NotReady) => pc = "raw_swarm_poll"

\* C3 witness: the pull returned NotReady in its second sub-cycle.
C3_Witness ==
    /\ pc = "idle" /\ returned = <<"poll", "NotReady">>
    /\ raw_event = NotReady /\ action = NotReady
    /\ events # <<>>

\* C4: a pull that has returned has returned NotReady or an event of the
\* behaviour, never the end of the stream and never an error, and the Swarm
\* can then be pulled again.
C4_OnlyEventOrPending ==
    /\ returned[1] = "poll" =>
          IF pc = "idle"
          THEN returned \in {<<"poll", "NotReady">>}
                            \cup {<<"poll", "Ready", e>> : e \in OutEvents}
          ELSE returned = <<"poll">>
    /\ pc = "idle" => ENABLED Poll

\* C4 witness: the pull returned after a DialError and an
\* UnknownPeerDialError were dispatched.
C4_Witness ==
    /\ pc = "idle" /\ returned[1] = "poll"
    /\ \E i \in 1..Len(events) : events[i][1] = "UnknownPeerDialError"
    /\ \E i \in 1..Len(events) : events[i][1] = "DialError"

\* C5: right after the behaviour poll returned GenerateEvent(e), the pull has
\* returned e and nothing else happened in that step; a pull returns an event
\* only in the step in which the behaviour emitted it; a pull that has just
\* been entered polls the connection manager first.
C5_GenerateEventReturnsAtOnce ==
    /\ action[1] = "GenerateEvent" =>
          /\ pc = "idle"
          /\ returned = <<"poll", "Ready", action[2]>>
          /\ ops = << <<"behaviour.poll">>, <<"return", "Ready", action[2]>> >>
    /\ (pc = "idle" /\ Len(returned) = 3 /\ returned[2] = "Ready") =>
          action = <<"GenerateEvent", returned[3]>>
    /\ returned = <<"poll">> /\ ops = <<>> => pc = "raw_swarm_poll"

\* C5 witness: the behaviour emitted out2 after the manager yielded an event.
C5_Witness ==
    /\ action = <<"GenerateEvent", "out2">>
    /\ returned = <<"poll", "Ready", "out2">>
    /\ raw_event # NotReady

\* C6: the supported protocols the Swarm holds, and those the behaviour read
\* through the PollParameters at its last poll, are the protocols of the first
\* handler built at construction.
C6_SupportedProtocolsFrozen ==
    /\ supported_protocols = HandlerProtocols(1)
    /\ parameters.polled => parameters.supported_protocols = HandlerProtocols(1)

\* C6 witness: the behaviour was polled after a listen_on succeeded and after
\* a later handler, which advertises other protocols, was built.
C6_Witness ==
    /\ parameters.polled
    /\ behaviour.handlers >= 2
    /\ HandlerProtocols(behaviour.handlers) # HandlerProtocols(1)
    /\ parameters.listened_addrs # <<>>

\* C7: the listened-address list is the sequence of the addresses that the
\* successful listen_on calls returned, in the order of the calls.
C7_ListenedAddrsAreOkResults == listened_addrs = listen_oks

\* C7 witness: listen_on succeeded twice on the same address, whose listener
\* was closed in between, and a pull has run.
C7_Witness ==
    /\ listened_addrs = <<"A0", "A0">>
    /\ \E i \in 1..Len(events) : events[i][1] = "ListenerClosed"

\* The calls by which a dial reaches the connection manager.
ConnectCalls(s) ==
    SelectOps(s, {"connect_iter", "transport.dial", "raw_swarm.dial"})

\* Whether the step is a dial(peer_id), called by the embedder or for DialPeer.
IsDialStep(peer_id) ==
    \/ (pc = "idle" /\ pc' = "idle" /\ returned' = <<"dial", peer_id>>)
    \/ (pc = "behaviour_poll" /\ action' = <<"DialPeer", peer_id>>)

\* C8: a step that runs dial(P) makes no call to the connection manager when
\* the manager reports P connected or pending, and makes the connect request
\* when P is not connected.
C8_DialOnlyWhenNotConnected ==
    [][\A p \in PeerIds : IsDialStep(p) =>
          IF PeerState(raw_swarm, p) = "NotConnected"
          THEN ConnectCalls(ops')[1] = <<"connect_iter", p, AddressesOfPeer(topology', p)>>
          ELSE ConnectCalls(ops') = <<>> /\ raw_swarm' = raw_swarm]_vars

\* C8 witness: a DialPeer(P) was executed while P was pending and made no call
\* to the connection manager.
C8_Witness ==
    /\ action = <<"DialPeer", "P">>
    /\ PeerState(raw_swarm, "P") = "PendingConnect"
    /\ ConnectCalls(ops) = <<>>

\* The scenario of C9: the embedder listens and dials addresses, then pulls once
\* while P is not connected; the behaviour returns DialPeer(P) on every poll.
NextDialPeer ==
    \/ \E addr \in Multiaddrs : ListenOn(addr)
    \/ \E addr \in DialAddrs : DialAddr(addr)
    \/ (PeerState(raw_swarm, "P") = "NotConnected" /\ Poll)
    \/ \E ev \in AllRawEvents : PollRawSwarm(ev)
    \/ \E w \in TopologyWrites : PollBehaviour(<<"DialPeer", "P">>, w)

SpecDialPeer == Init /\ [][NextDialPeer]_vars

\* The events by which the manager reports P back to not connected.
DropsOfP ==
    {<<"DialError", "P">>}
    \cup {<<k, "P", ep>> : k \in {"NodeClosed", "NodeError"}, ep \in Endpoints}

\* C9 as stated: once the first DialPeer(P) of the pull has been executed with
\* P still not connected, the pull has caused exactly one dial to A, however
\* long it goes on.
C9_ExactlyOneDialPerPull ==
    (/\ pc = "raw_swarm_poll" /\ action # None
     /\ Count(events, {<<"Connected", "P", "Listener">>}) = 0) => pull_dials = 1

\* C9 as amended: after every DialPeer(P) of the pull P is pending or
\* connected, and the dials the pull has caused are one for each DialPeer(P)
\* executed while P was not connected: one at the first DialPeer unless P had
\* connected to a listener before it, and one after each DialError, NodeClosed
\* or NodeError of P.
C9_OneDialPerNotConnected ==
    (pc = "raw_swarm_poll" /\ action # None) =>
        /\ PeerState(raw_swarm, "P") # "NotConnected"
        /\ pull_dials = (IF Count(events, {<<"Connected", "P", "Listener">>}) > 0
                         THEN 0 ELSE 1)
                        + Count(events, DropsOfP)

\* C9 witness: the pull dialed A, the dial failed, and the next DialPeer(P)
\* dialed A again.
C9_Witness ==
    /\ pc = "raw_swarm_poll" /\ action = <<"DialPeer", "P">>
    /\ Count(events, DropsOfP) = 1
    /\ pull_dials = 2
    /\ SelectOps(ops, {"transport.dial"}) = << <<"transport.dial", "A">> >>

\* C10: a step that executes SendEvent{peer_id, event} sends the event once to
\* peer_id when the manager reports peer_id connected; otherwise it makes no
\* call at all; in both cases no callback is made and the loop goes on with a
\* manager poll.
C10_SendOnlyWhenConnected ==
    [][\A p \in PeerIds, e \in HandlerInEvents :
          (pc = "behaviour_poll" /\ action' = <<"SendEvent", p, e>>) =>
             /\ ops' = << <<"behaviour.poll">> >>
                       \o (IF PeerState(raw_swarm, p) = "Connected"
                           THEN << <<"send_event", p, e>> >> ELSE <<>>)
             /\ callbacks' = callbacks
             /\ pc' = "raw_swarm_poll"]_vars

\* C10 witness: a SendEvent to the pending peer P was dropped while Q is
\* connected.
C10_Witness ==
    /\ action = <<"SendEvent", "P", "in_ev">>
    /\ PeerState(raw_swarm, "P") = "PendingConnect"
    /\ PeerState(raw_swarm, "Q") = "Connected"
    /\ ops = << <<"behaviour.poll">> >>

\* C11: a step that executes DialAddress{address} for an address the transport
\* rejects asks for a handler and hands the address to the manager, which
\* starts no dial and changes nothing; the rejection is dropped: no inject_*
\* callback is made, the pull does not return, and the loop goes on with the
\* next manager poll.
C11_RejectedDialAddressDropped ==
    [][\A a \in DialAddrs \ TransportSupported :
          (pc = "behaviour_poll" /\ action' = <<"DialAddress", a>>) =>
             /\ ops' = << <<"behaviour.poll">>, <<"new_handler">>,
                          <<"raw_swarm.dial", a>> >>
             /\ callbacks' = callbacks
             /\ raw_swarm' = raw_swarm
             /\ returned' = returned
             /\ pc' = "raw_swarm_poll"]_vars

\* C11 witness: DialAddress(X) was executed in a sub-cycle whose manager poll
\* was not ready, and the loop stands at the next manager poll.
C11_Witness ==
    /\ action = <<"DialAddress", "X">>
    /\ raw_event = NotReady
    /\ pc = "raw_swarm_poll"
    /\ ops = << <<"behaviour.poll">>, <<"new_handler">>, <<"raw_swarm.dial", "X">> >>

\* C12: a listen_on(a) or dial_addr(a) for an address a the manager rejects
\* returns the error carrying exactly a, and leaves the listened-address list,
\* the listeners and the connected and pending peers as they were.
C12_RejectedAddressReturned ==
    [][\A a \in Multiaddrs \ TransportSupported, f \in {"listen_on", "dial_addr"} :
          (pc = "idle" /\ returned'[1] = f /\ returned'[2] = a) =>
             /\ returned' = <<f, a, "Err", a>>
             /\ listened_addrs' = listened_addrs
             /\ listeners' = listeners
             /\ raw_swarm'.peers = raw_swarm.peers]_vars

\* C12 witness: listen_on(X) failed while a listener is open and P is being
\* dialed.
C12_Witness ==
    /\ returned = <<"listen_on", "X", "Err", "X">>
    /\ listened_addrs = <<"A0">>
    /\ listeners = <<"A0">>
    /\ PeerState(raw_swarm, "P") = "PendingConnect"

\* The drive loop with its scheduling: inside a pull every step is a plain call
\* that returns, so the manager poll and the behaviour poll that the loop
\* stands at are eventually made.
SpecFair ==
    /\ Spec
    /\ WF_vars(\E ev \in AllRawEvents : PollRawSwarm(ev))
    /\ WF_vars(\E act \in BehaviourActions, w \in TopologyWrites :
                   PollBehaviour(act, w))

\* The manager yields an event.
ManagerYields == \E ev \in AllRawEvents \ {NotReady} : PollRawSwarm(ev)

\* The behaviour returns not-ready or GenerateEvent.
BehaviourSettles ==
    \E act \in {NotReady} \cup {<<"GenerateEvent", e>> : e \in OutEvents},
       w \in TopologyWrites : PollBehaviour(act, w)

\* C13: if the manager yields only finitely many events, and the behaviour,
\* polled again and again, returns not-ready or GenerateEvent again and again,
\* then every pull that was started returns to its caller.
C13_PullReturns ==
    (<>[][~ManagerYields]_vars /\ SF_vars(BehaviourSettles))
        => ((pc # "idle") ~> (pc = "idle"))

\* C13 witness: a pull returned pending after three sub-cycles with an event
\* and one sub-cycle in which the behaviour sent an event to a peer.
C13_Witness ==
    /\ pc = "idle"
    /\ returned = <<"poll">> \o NotReady
    /\ Len(events) = 3
    /\ listened_addrs = <<>>
    /\ behaviour.handlers = 1

\* C14: when exactly one listen_on has succeeded since construction, returning
\* B, the listeners accessor enumerates exactly B (as long as the manager has
\* not reported that listener closed), and the listened-address list a
\* behaviour poll is given is exactly <<B>>.
C14_OneListenOneAddress ==
    Len(listen_oks) = 1 =>
        /\ (\A i \in 1..Len(events) : events[i][1] # "ListenerClosed")
              => listeners = <<listen_oks[1]>>
        /\ parameters.polled => parameters.listened_addrs = <<listen_oks[1]>>

\* C14 witness: listen_on(A) returned A0 on a Swarm on which nothing else was
\* done, and the behaviour polled in the first pull was given <<A0>> while the
\* accessor enumerates A0.
C14_Witness ==
    /\ listen_oks = <<"A0">>
    /\ events = <<>> /\ behaviour.handlers = 1
    /\ parameters.polled /\ parameters.listened_addrs = <<"A0">>
    /\ listeners = <<"A0">>

\* The calls by which the Swarm operates on the manager or registers addresses
\* in the topology.
ManagerOrTopologyCalls(s) ==
    SelectOps(s, {"raw_swarm.dial", "connect_iter", "transport.dial", "accept",
                  "send_event", "add_local_external_addrs"})

\* C15: at the step where a pull returns pending, the manager poll of that
\* sub-cycle returned not-ready and made no other call, and the returning
\* step itself only polled the behaviour and left the manager as it was: no
\* dial, connect, accept, send-event or topology registration lies between the
\* last manager poll and the return. A step that executes a dial, send or
\* report action always goes on with another manager poll.
C15_PendingOnlyAfterIdleManager ==
    [][/\ (pc = "behaviour_poll" /\ pc' = "idle" /\ returned' = <<"poll">> \o NotReady) =>
            /\ raw_event = NotReady
            /\ ops = << <<"raw_swarm.poll">> >>
            /\ ops' = << <<"behaviour.poll">>, <<"return">> \o NotReady >>
            /\ raw_swarm' = raw_swarm
       /\ (pc = "behaviour_poll" /\ ManagerOrTopologyCalls(ops') # <<>>) =>
            pc' = "raw_swarm_poll"]_vars

\* C15 witness: a pull returned pending after a sub-cycle in which both polls
\* were not ready, while P is being dialed.
C15_Witness ==
    /\ pc = "idle"
    /\ returned = <<"poll">> \o NotReady
    /\ raw_event = NotReady
    /\ ops = << <<"behaviour.poll">>, <<"return">> \o NotReady >>
    /\ PeerState(raw_swarm, "P") = "PendingConnect"

\* C16: a pull starts at a manager poll; a step standing at the manager poll
\* polls the manager exactly once, first, makes the callbacks of the one event
\* it got (none when not ready or for an absorbed event), does not poll the
\* behaviour, and leaves the loop at the behaviour poll; a step standing at the
\* behaviour poll polls the behaviour exactly once, first, polls no manager and
\* makes no callback, and leaves the loop at the next manager poll or returns.
\* So a pull returns only from a step that polled the behaviour after the last
\* callback.
C16_PollsAlternate ==
    [][/\ (pc = "idle" /\ pc' # "idle") => (pc' = "raw_swarm_poll" /\ ops' = <<>>)
       /\ (pc = "raw_swarm_poll" /\ vars' # vars) =>
            /\ ops'[1] = <<"raw_swarm.poll">>
            /\ Len(SelectOps(ops', {"raw_swarm.poll"})) = 1
            /\ SelectOps(ops', {"behaviour.poll"}) = <<>>
            /\ SelectOps(ops', InjectNames) = EventCallbacks(raw_event')
            /\ pc' = "behaviour_poll"
       /\ (pc = "behaviour_poll" /\ vars' # vars) =>
            /\ ops'[1] = <<"behaviour.poll">>
            /\ Len(SelectOps(ops', {"behaviour.poll"})) = 1
            /\ SelectOps(ops', {"raw_swarm.poll"} \cup InjectNames) = <<>>
            /\ callbacks' = callbacks
            /\ pc' \in {"raw_swarm_poll", "idle"}]_vars

\* C16 witness: the manager yielded an event that is absorbed, the behaviour
\* was polled all the same, and the loop stands at the next manager poll.
C16_Witness ==
    /\ raw_event = <<"IncomingConnectionError">>
    /\ ops = << <<"behaviour.poll">> >>
    /\ action = NotReady
    /\ pc = "raw_swarm_poll"

RECURSIVE PeerSequenced(_, _, _)
\* Whether the calls of s about the peer p are in sequence, the behaviour
\* having been told last that p is connected (connected = TRUE) or not:
\* inject_connected only when not connected, inject_disconnected and
\* inject_node_event only when connected.
PeerSequenced(s, p, connected) ==
    IF s = <<>> THEN TRUE
    ELSE IF Head(s)[2] # p THEN PeerSequenced(Tail(s), p, connected)
    ELSE CASE Head(s)[1] = "inject_connected" ->
                 ~connected /\ PeerSequenced(Tail(s), p, TRUE)
           [] Head(s)[1] = "inject_disconnected" ->
                 connected /\ PeerSequenced(Tail(s), p, FALSE)
           [] OTHER -> connected /\ PeerSequenced(Tail(s), p, connected)

\* Whether the last call of s about p that opens or closes a connection is
\* inject_connected.
ToldConnected(s, p) ==
    LET c == SelectOps(s, {"inject_connected", "inject_disconnected"})
        mine == {i \in 1..Len(c) : c[i][2] = p}
    IN mine # {} /\ c[CHOOSE i \in mine : \A j \in mine : j <= i][1] = "inject_connected"

\* C17: with a manager that emits the events of a peer in order, the callbacks
\* the behaviour got about each peer are in sequence: inject_connected and
\* inject_disconnected alternate, starting with inject_connected, and every
\* inject_node_event lies between an inject_connected and the next
\* inject_disconnected; the behaviour was told last that the peer is connected
\* exactly when the manager has it connected.
C17_PeerCallbacksSequenced ==
    \A p \in PeerIds :
        /\ PeerSequenced(callbacks, p, FALSE)
        /\ ToldConnected(callbacks, p) <=> (PeerState(raw_swarm, p) = "Connected")

\* C17 witness: the connection of Q was replaced: the behaviour got
\* inject_connected, inject_disconnected, inject_connected for Q.
C17_Witness ==
    /\ Len(callbacks) = 3
    /\ \A i \in 1..3 : callbacks[i][2] = "Q"
    /\ callbacks[2][1] = "inject_disconnected"
    /\ PeerState(raw_swarm, "Q") = "Connected"
    /\ pc = "idle"

\* C18: the topology changes only in a step that polls the behaviour, and
\* there only by what the behaviour wrote during its poll and, when the action
\* is ReportObservedAddr, by the external addresses the Swarm registers; the
\* embedder's calls, the dispatch of any manager event, and the execution of
\* GenerateEvent, DialAddress, DialPeer and SendEvent add nothing of their own.
C18_TopologyWriters ==
    [][/\ pc # "behaviour_poll" => topology' = topology
       /\ (pc = "behaviour_poll" /\ vars' # vars) =>
            \E w \in TopologyWrites :
                topology' = IF action'[1] = "ReportObservedAddr"
                            THEN [BehaviourWrite(topology, w) EXCEPT
                                    !.external = @ \cup RawNatTraversal(raw_swarm, action'[2])]
                            ELSE BehaviourWrite(topology, w)]_vars

\* C18 witness: the behaviour recorded an address of P during the poll from
\* which it returned DialAddress; external addresses had been registered for
\* ReportObservedAddr before; nothing else changed the topology.
C18_Witness ==
    /\ action = <<"DialAddress", "A">>
    /\ topology.addresses["P"] = <<"A", "B">>
    /\ topology.external = {"A@A0"}
    /\ events = <<>>

\* Whether the sequence s is a prefix of the sequence t.
IsPrefix(s, t) == Len(s) <= Len(t) /\ SubSeq(t, 1, Len(s)) = s

\* C19: every step leaves the listened-address list a prefix of what it
\* becomes, and only a listen_on call of the embedder changes it: inside a pull
\* no manager event, ListenerClosed included, and no behaviour action changes
\* it, so the behaviour is given the address of a closed listener still.
C19_ListenedAddrsAppendOnly ==
    [][/\ IsPrefix(listened_addrs, listened_addrs')
       /\ (pc # "idle" \/ returned'[1] # "listen_on")
             => listened_addrs' = listened_addrs]_vars

\* C19 witness: the manager reported the only listener closed, and the
\* behaviour polled next was given the list with its address.
C19_Witness ==
    /\ raw_event = <<"ListenerClosed", "A0">>
    /\ listeners = <<>>
    /\ parameters.polled
    /\ parameters.listened_addrs = <<"A0">>

\* C20: the step in which the manager yields IncomingConnection asks the
\* behaviour for exactly one new handler and accepts the connection with it,
\* right after the manager poll and in that order; it makes no callback
\* (inject_connected comes with a later Connected or Replaced event) and goes
\* on to the behaviour poll.
C20_IncomingAccepted ==
    [][(pc = "raw_swarm_poll" /\ raw_event' = <<"IncomingConnection">>) =>
          /\ ops' = << <<"raw_swarm.poll">>, <<"new_handler">>, <<"accept">> >>
          /\ behaviour'.handlers = behaviour.handlers + 1
          /\ callbacks' = callbacks
          /\ pc' = "behaviour_poll"]_vars

\* C20 witness: an incoming connection was accepted with the second handler
\* the behaviour built, and no callback has been made.
C20_Witness ==
    /\ raw_event = <<"IncomingConnection">>
    /\ pc = "behaviour_poll"
    /\ ops = << <<"raw_swarm.poll">>, <<"new_handler">>, <<"accept">> >>
    /\ behaviour.handlers = 2
    /\ callbacks = <<>>

\* C21: a step that executes ReportObservedAddr{address} asks the manager for
\* the NAT-traversal translations of the address and registers exactly those,
\* possibly none, in one add_local_external_addrs call; it makes no dial, no
\* send and no callback, leaves the manager as it was, and goes on with a
\* manager poll.
C21_ObservedAddrRegistered ==
    [][\A a \in DialAddrs :
          (pc = "behaviour_poll" /\ action' = <<"ReportObservedAddr", a>>) =>
             /\ ops' = << <<"behaviour.poll">>, <<"nat_traversal", a>>,
                          <<"add_local_external_addrs", RawNatTraversal(raw_swarm, a)>> >>
             /\ topology'.external =
                    topology.external \cup RawNatTraversal(raw_swarm, a)
             /\ callbacks' = callbacks
             /\ raw_swarm' = raw_swarm
             /\ behaviour' = behaviour
             /\ pc' = "raw_swarm_poll"]_vars

\* C21 witness: with listeners on A0 and B, ReportObservedAddr(A) registered
\* the two translations of A.
C21_Witness ==
    /\ action = <<"ReportObservedAddr", "A">>
    /\ listeners = <<"A0", "B">>
    /\ topology.external = {"A@A0", "A@B"}
    /\ pc = "raw_swarm_poll"

\* Whether the step is a dial_addr, called by the embedder or for DialAddress.
IsDialAddrStep ==
    \/ (pc = "idle" /\ pc' = "idle" /\ returned'[1] = "dial_addr")
    \/ (pc = "behaviour_poll" /\ action'[1] = "DialAddress")

\* Whether the step dispatches an IncomingConnection event.
IsIncomingStep == pc = "raw_swarm_poll" /\ raw_event' = <<"IncomingConnection">>

\* The new_handler calls among the calls s.
HandlerRequests(s) == Len(SelectOps(s, {"new_handler"}))

\* C22 as stated: a step requests one handler for a dial_addr, one for a
\* dial(P) that finds P not connected, one for an IncomingConnection event,
\* and none otherwise: a dial(P) that finds P connected or pending requests no
\* handler. By induction the handlers built are 1 + the connection attempts.
C22_HandlerPerAttempt ==
    [][LET attempts ==
             (IF IsDialAddrStep THEN 1 ELSE 0)
             + (IF \E p \in PeerIds : IsDialStep(p)
                      /\ PeerState(raw_swarm, p) = "NotConnected" THEN 1 ELSE 0)
             + (IF IsIncomingStep THEN 1 ELSE 0)
       IN /\ HandlerRequests(ops') = attempts
          /\ behaviour'.handlers = behaviour.handlers + attempts]_vars

\* What swarm.rs does: a step requests one handler for every dial_addr, for
\* every dial, whatever the state of the peer, and for every
\* IncomingConnection event, and none otherwise.
C22_HandlerPerInvocation ==
    [][LET invocations ==
             (IF IsDialAddrStep THEN 1 ELSE 0)
             + (IF \E p \in PeerIds : IsDialStep(p) THEN 1 ELSE 0)
             + (IF IsIncomingStep THEN 1 ELSE 0)
       IN /\ HandlerRequests(ops') = invocations
          /\ behaviour'.handlers = behaviour.handlers + invocations]_vars

\* C22 witness: the embedder called dial(P) while P was being dialed: nothing
\* was asked of the manager, and the behaviour built a third handler.
C22_Witness ==
    /\ returned = <<"dial", "P">>
    /\ ops = << <<"addresses_of_peer", "P">>, <<"new_handler">> >>
    /\ PeerState(raw_swarm, "P") = "PendingConnect"
    /\ behaviour.handlers = 3
    /\ events = <<>>

====
